---- MODULE Spec2Model ----
(***************************************************************************)
(* A model of src/protobuf_mutator.cc: the structure-aware mutator of      *)
(* schema-described messages (mutation sampler, data-source sampler,       *)
(* transformations, Mutate, CrossOver, InitializeMessage) and its scalar   *)
(* hooks (FlipBit, MutateBool, MutateEnum, MutateString).                  *)
(*                                                                         *)
(* Random draws are nondeterministic choices.  A byte is a number in       *)
(* 0..255; a string and the byte representation of an integer are          *)
(* sequences of bytes.  An assertion of the code that evaluates to false   *)
(* is recorded by its label; the state then continues as the build with    *)
(* assertions compiled out continues.                                      *)
(***************************************************************************)
EXTENDS Integers, Sequences, FiniteSets, TLC

VARIABLES
    pc,                  \* position of the scalar-hook call: "call" or "done"
    index,               \* MutateEnum: argument index
    item_count,          \* MutateEnum: argument item_count
    value,               \* MutateString: argument value
    size_increase_hint,  \* MutateString: argument size_increase_hint
    run,                 \* MutateString: the buffer after each phase
    result,              \* the value the scalar hook returned
    failed,              \* labels of the assertions that evaluated to false
    descriptor,          \* the descriptor (type) of the caller's message
    msg,                 \* the caller's message
    keep_initialized_,   \* ProtobufMutator::keep_initialized_
    ops,                 \* the number of Mutate and CrossOver calls made
    last                 \* what the last call drew and did

messageVars == <<descriptor, msg, keep_initialized_, ops, last>>

scalarVars == <<pc, index, item_count, value, size_increase_hint, run, result>>

(***************************************************************************)
(* Bounds of the model.                                                    *)
(***************************************************************************)
MaxEnumCount == 8
MaxStrLen == 2
MaxHint == 2
MaxOps == 2
MaxDeepOps == 1
MaxCrossOps == 1
MaxCrossDepth == 8
MaxAppended == 4

\* the bytes input strings are made of, and the bytes the grow phase may draw
InputBytes == {96, 97}
InsertBytes == {0, 96, 255}

(***************************************************************************)
(* Program constants.                                                      *)
(***************************************************************************)
kMaxInitializeDepth == 32
kDeletionThreshold == 128
kMutateWeight == 1000000
BitsPerByte == 8

(***************************************************************************)
(* Random source.                                                          *)
(***************************************************************************)
\* GetRandomIndex(random, count): the values the call may return.  With
\* count = 0 the assertion fails; without assertions the distribution is
\* over the whole range of size_t, of which the model keeps 0 and 1.
GetRandomIndex(count) ==
    IF count > 0 THEN 0 .. (count - 1) ELSE {0, 1}

\* the assertion count > 0 of GetRandomIndex
GetRandomIndexAssert(count) ==
    IF count > 0 THEN {} ELSE {"count > 0"}

\* GetRandomBool(random, n = 2)
GetRandomBool == { i = 0 : i \in GetRandomIndex(2) }

\* bytes[bit / 8] ^= (1u << (bit % 8)) on one byte
XorBit(byte, k) ==
    IF (byte \div (2 ^ k)) % 2 = 1 THEN byte - 2 ^ k ELSE byte + 2 ^ k

\* a plausible slip: |= instead of ^=
FlipBitOr(size, bytes, bit) ==
    [bytes EXCEPT ![(bit \div BitsPerByte) + 1] =
        IF (@ \div (2 ^ (bit % BitsPerByte))) % 2 = 1
        THEN @ ELSE @ + 2 ^ (bit % BitsPerByte)]

\* FlipBit(size, bytes, random) with the drawn bit position
FlipBit(size, bytes, bit) ==
    [bytes EXCEPT ![(bit \div BitsPerByte) + 1] = XorBit(@, bit % BitsPerByte)]

\* the bit positions uniform_int_distribution(0, size * 8 - 1) may draw
BitDraws(size) == 0 .. (size * BitsPerByte - 1)

\* every bit position: the draws of the scalar-hook specifications
AllBits == BitDraws(MaxStrLen + MaxHint + 4)

(***************************************************************************)
(* Scalar mutators.                                                        *)
(***************************************************************************)
MutateBool(v) == ~v

\* a plausible slip: the "+ 1" forgotten
MutateEnumNoStep(idx, count, r) == (idx + r) % count

\* MutateEnum(index, item_count) with r the value GetRandomIndex returned
MutateEnum(idx, count, r) == (idx + 1 + r) % count

\* result.erase(i, 1), i counted from 0
Erase(s, i) == SubSeq(s, 1, i) \o SubSeq(s, i + 2, Len(s))

\* result.insert(result.begin() + i, b), i counted from 0
Insert(s, i, b) == SubSeq(s, 1, i) \o <<b>> \o SubSeq(s, i + 1, Len(s))

\* first loop of MutateString: every buffer the shrink phase may leave
RECURSIVE ShrinkOutcomes(_)
ShrinkOutcomes(s) ==
    {s} \cup
    (IF s # <<>> /\ TRUE \in GetRandomBool
     THEN UNION { ShrinkOutcomes(Erase(s, i)) : i \in GetRandomIndex(Len(s)) }
     ELSE {})

\* a plausible slip: <= instead of < in the loop condition
RECURSIVE GrowOutcomesLE(_, _, _)
GrowOutcomesLE(s, hint, bytes) ==
    {s} \cup
    (IF Len(s) <= hint /\ TRUE \in GetRandomBool
     THEN UNION { GrowOutcomesLE(Insert(s, i, b), hint, bytes) :
                    i \in GetRandomIndex(Len(s) + 1), b \in bytes }
     ELSE {})

\* second loop of MutateString: every buffer the grow phase may leave, the
\* inserted bytes drawn from the set bytes
RECURSIVE GrowOutcomes(_, _, _)
GrowOutcomes(s, hint, bytes) ==
    {s} \cup
    (IF Len(s) < hint /\ TRUE \in GetRandomBool
     THEN UNION { GrowOutcomes(Insert(s, i, b), hint, bytes) :
                    i \in GetRandomIndex(Len(s) + 1), b \in bytes }
     ELSE {})

\* the final step of MutateString, the bit position drawn from bits
FlipOutcomes(s, bits) ==
    IF s # <<>>
    THEN { FlipBit(Len(s), s, bit) : bit \in BitDraws(Len(s)) \cap bits }
    ELSE {s}

\* MutateString(value, size_increase_hint): every run, as the buffer after
\* the shrink phase, after the grow phase and after the bit flip
MutateStringRuns(v, hint, bytes, bits) ==
    UNION { UNION { { [shrunk |-> s, grown |-> g, flipped |-> r] :
                        r \in FlipOutcomes(g, bits) } :
                    g \in GrowOutcomes(s, hint, bytes) } :
            s \in ShrinkOutcomes(v) }

MutateString(v, hint, bytes, bits) ==
    { r.flipped : r \in MutateStringRuns(v, hint, bytes, bits) }

(***************************************************************************)
(* Schemas.  A descriptor lists its fields in order; a field descriptor    *)
(* carries its cpp_type, its label, its oneof group (0: none) with its     *)
(* index in the group, and the enum or message type it refers to.          *)
(***************************************************************************)
FieldDescriptor(n, t, l, g, k, r) ==
    [name |-> n, cpp_type |-> t, label |-> l, oneof |-> g,
     index_in_oneof |-> k, ref |-> r]

\* value_count of the enum types
EnumCount == [Color |-> 3, Unit |-> 1]

Schema ==
    [ \* message M { required int32 a; optional string b; repeated int32 c; }
      M |-> << FieldDescriptor("a", "int32", "required", 0, 0, ""),
               FieldDescriptor("b", "string", "optional", 0, 0, ""),
               FieldDescriptor("c", "int32", "repeated", 0, 0, "") >>,
      \* message O { oneof g { bool x; Color y; } repeated Color ys;
      \*             optional Unit u; }
      O |-> << FieldDescriptor("x", "bool", "optional", 1, 0, ""),
               FieldDescriptor("y", "enum", "optional", 1, 1, "Color"),
               FieldDescriptor("ys", "enum", "repeated", 0, 0, "Color"),
               FieldDescriptor("u", "enum", "optional", 0, 0, "Unit") >>,
      \* message N { repeated E es; optional E s; }
      N |-> << FieldDescriptor("es", "message", "repeated", 0, 0, "E"),
               FieldDescriptor("s", "message", "optional", 0, 0, "E") >>,
      \* message E { repeated bool g; }
      E |-> << FieldDescriptor("g", "bool", "repeated", 0, 0, "") >>,
      \* message D { optional D child; optional R r; }
      D |-> << FieldDescriptor("child", "message", "optional", 0, 0, "D"),
               FieldDescriptor("r", "message", "optional", 0, 0, "R") >>,
      \* message R { required bool x; }
      R |-> << FieldDescriptor("x", "bool", "required", 0, 0, "") >>,
      \* message K { optional Cyc c; }
      K |-> << FieldDescriptor("c", "message", "optional", 0, 0, "Cyc") >>,
      \* message Cyc { required Cyc next; }
      Cyc |-> << FieldDescriptor("next", "message", "required", 0, 0, "Cyc") >>
    ]

field_count(type) == Len(Schema[type])
is_repeated(field) == field.label = "repeated"
is_required(field) == field.label = "required"

(***************************************************************************)
(* Messages.  A message is the sequence of its fields' contents in         *)
(* descriptor order; the content of a field is the sequence of its         *)
(* elements: at most one for a singular field, none when it is unset.      *)
(* An int32 is its four bytes, a string its bytes, an enum its index, a    *)
(* sub-message a message.                                                  *)
(***************************************************************************)
\* the sequence with the elements of a function on 1 .. n
AsSeq(f) == f \o <<>>

NewMessage(type) == AsSeq([i \in 1 .. field_count(type) |-> <<>>])

FieldSize(message, i) == Len(message[i])
HasField(message, i) == Len(message[i]) > 0

\* the places of the sub-messages a message holds, as <<field, element>>
Slots(message, type) ==
    UNION { { <<i, j>> : j \in 1 .. FieldSize(message, i) } :
              i \in { k \in 1 .. field_count(type) :
                        Schema[type][k].cpp_type = "message" } }

Node(path, type, message) ==
    [path |-> path, type |-> type, message |-> message]

\* the sub-messages the messages of a set of nodes hold
Children(nodes) ==
    UNION { { Node(Append(n.path, s), Schema[n.type][s[1]].ref,
                   n.message[s[1]][s[2]]) : s \in Slots(n.message, n.type) } :
              n \in nodes }

\* the nodes of a traversal that has the nodes of walk.seen behind it and
\* those of walk.front before it
RECURSIVE Descend(_)
Descend(walk) ==
    IF walk.front = {} THEN walk.seen
    ELSE Descend([front |-> Children(walk.front),
                  seen |-> walk.seen \cup walk.front])

\* the message and every sub-message below it, each with the path that leads
\* to it and its type; a path is a sequence of <<field, element>>
Nodes(message, type, path) ==
    Descend([front |-> {Node(path, type, message)}, seen |-> {}])

\* Message::IsInitialized(): every required field is set, in the message and
\* in every sub-message it holds
IsInitialized(message, type) ==
    \A n \in Nodes(message, type, <<>>) :
        \A i \in 1 .. field_count(n.type) :
            is_required(Schema[n.type][i]) => HasField(n.message, i)

\* e, with v computed first: a value is otherwise computed where it is first
\* used, which in a descent through a message is the bottom of the descent
Having(v, e) == IF v = v THEN e ELSE e

\* the message a path leads to
RECURSIVE MessageAt(_, _)
MessageAt(message, path) ==
    IF path = <<>> THEN message
    ELSE Having(message,
                MessageAt(message[path[1][1]][path[1][2]], Tail(path)))

RECURSIVE TypeAt(_, _)
TypeAt(type, path) ==
    IF path = <<>> THEN type
    ELSE Having(type, TypeAt(Schema[type][path[1][1]].ref, Tail(path)))

\* the root with the message at the path replaced
RECURSIVE ReplaceAt(_, _, _)
ReplaceAt(message, path, new) ==
    IF path = <<>> THEN new
    ELSE [message EXCEPT ![path[1][1]][path[1][2]] =
              ReplaceAt(@, Tail(path), new)]

\* the number of messages on the longest chain of nested messages
Depth(message, type) ==
    LET lengths == { Len(n.path) : n \in Nodes(message, type, <<>>) }
    IN  1 + (CHOOSE d \in lengths : \A e \in lengths : e <= d)

(***************************************************************************)
(* Field instances: the operations of a (message, descriptor, index) site  *)
(* on the content of its message.                                          *)
(***************************************************************************)
\* FieldInstance::GetDefault
GetDefault(field) ==
    CASE field.cpp_type = "int32" -> <<0, 0, 0, 0>>
      [] field.cpp_type = "bool" -> FALSE
      [] field.cpp_type = "string" -> <<>>
      [] field.cpp_type = "enum" -> 0
      [] field.cpp_type = "message" -> NewMessage(field.ref)

\* setting a member of a oneof clears the other members
ClearSiblings(message, type, i) ==
    AsSeq([k \in 1 .. field_count(type) |->
             IF /\ k # i
                /\ Schema[type][i].oneof # 0
                /\ Schema[type][k].oneof = Schema[type][i].oneof
             THEN <<>> ELSE message[k]])

\* FieldInstance::Create: insert at the index, or set the singular field
Create(message, type, i, idx, v) ==
    IF is_repeated(Schema[type][i])
    THEN [message EXCEPT ![i] = Insert(@, idx, v)]
    ELSE [ClearSiblings(message, type, i) EXCEPT ![i] = <<v>>]

\* FieldInstance::Store: write the element at the index, or the singular field
Store(message, type, i, idx, v) ==
    IF is_repeated(Schema[type][i])
    THEN [message EXCEPT ![i][idx + 1] = v]
    ELSE [ClearSiblings(message, type, i) EXCEPT ![i] = <<v>>]

\* FieldInstance::Delete: remove the element at the index, or clear the field
Delete(message, type, i, idx) ==
    IF is_repeated(Schema[type][i])
    THEN [message EXCEPT ![i] = Erase(@, idx)]
    ELSE [message EXCEPT ![i] = <<>>]

\* ConstFieldInstance::Load
Load(message, i, idx) == message[i][idx + 1]

(***************************************************************************)
(* The repair pass.                                                        *)
(***************************************************************************)
\* the content of field i after the creation step of InitializeMessage: an
\* unset required field is created with its default value
Created(message, type, i) ==
    IF is_required(Schema[type][i]) /\ ~HasField(message, i)
    THEN <<GetDefault(Schema[type][i])>>
    ELSE message[i]

\* InitializeMessage(message, max_depth): the message it leaves
RECURSIVE InitializeMessage(_, _, _)
InitializeMessage(message, type, max_depth) ==
    [i \in 1 .. field_count(type) |->
        [j \in 1 .. Len(Created(message, type, i)) |->
            IF /\ max_depth > 0
               /\ Schema[type][i].cpp_type = "message"
               /\ ~IsInitialized(Created(message, type, i)[j],
                                 Schema[type][i].ref)
            THEN InitializeMessage(Created(message, type, i)[j],
                                   Schema[type][i].ref, max_depth - 1)
            ELSE Created(message, type, i)[j]]]

\* InitializeMessage(message, max_depth): the assertions that fail in it
RECURSIVE InitializeAsserts(_, _, _)
InitializeAsserts(message, type, max_depth) ==
    (IF max_depth = 0 THEN {"max_depth"} ELSE {}) \cup
    UNION { IF /\ max_depth > 0
               /\ Schema[type][s[1]].cpp_type = "message"
               /\ ~IsInitialized(Created(message, type, s[1])[s[2]],
                                 Schema[type][s[1]].ref)
            THEN InitializeAsserts(Created(message, type, s[1])[s[2]],
                                   Schema[type][s[1]].ref, max_depth - 1)
            ELSE {} :
              s \in UNION { { <<i, j>> :
                                j \in 1 .. Len(Created(message, type, i)) } :
                            i \in 1 .. field_count(type) } }

\* the tail of Mutate and of CrossOver: repair when keep_initialized_ is on
Repaired(message, type, keep) ==
    IF keep /\ ~IsInitialized(message, type)
    THEN InitializeMessage(message, type, kMaxInitializeDepth)
    ELSE message

RepairAsserts(message, type, keep) ==
    IF keep /\ ~IsInitialized(message, type)
    THEN InitializeAsserts(message, type, kMaxInitializeDepth) \cup
         (IF IsInitialized(Repaired(message, type, keep), type)
          THEN {} ELSE {"message->IsInitialized()"})
    ELSE {}

(***************************************************************************)
(* The mutation sampler.                                                   *)
(***************************************************************************)
\* a plausible slip: the add weight is not scaled down near the limit
AddWeightUnscaled(hint) == kMutateWeight \div 10

\* add_weight_ after the constructor's adjustment (the product with the
\* float adjustment 0.5 * hint / 128 is exact and truncates on assignment)
AddWeight(hint) ==
    IF hint < kDeletionThreshold
    THEN ((kMutateWeight \div 10) * hint) \div (2 * kDeletionThreshold)
    ELSE kMutateWeight \div 10

\* delete_weight_ after the constructor's adjustment
DeleteWeight(hint) ==
    IF hint < kDeletionThreshold
    THEN ((kMutateWeight \div 10) * (2 * kDeletionThreshold - hint))
             \div (2 * kDeletionThreshold)
    ELSE kMutateWeight \div 10

\* MutationSampler::GetCopyWeight
GetCopyWeight(field, hint) ==
    IF field.cpp_type = "message" THEN AddWeight(hint) ELSE kMutateWeight

Offer(w, path, i, idx, m) ==
    [weight |-> w, path |-> path, field |-> i, index |-> idx, mutation |-> m]

OneofMembers(type, g) ==
    { k \in 1 .. field_count(type) : Schema[type][k].oneof = g }

\* Reflection::GetOneofFieldDescriptor: the set members of the group
SetMembers(message, type, g) ==
    { k \in OneofMembers(type, g) : HasField(message, k) }

\* the Mutate, Delete and Copy offers of an existing element
ExistingOffers(type, path, i, idx, hint, deletable) ==
    LET field == Schema[type][i] IN
    (IF field.cpp_type # "message"
     THEN {Offer(kMutateWeight, path, i, idx, "Mutate")} ELSE {}) \cup
    (IF deletable
     THEN {Offer(DeleteWeight(hint), path, i, idx, "Delete")} ELSE {}) \cup
    {Offer(GetCopyWeight(field, hint), path, i, idx, "Copy")}

\* one round of the loop over the fields in MutationSampler::Sample, before
\* the descent into the sub-messages of the field
FieldOffers(message, type, path, i, keep, hint) ==
    LET field == Schema[type][i] IN
    IF field.oneof # 0
    THEN IF field.index_in_oneof = 0
         THEN { Offer(AddWeight(hint), path, k, 0, "Add") :
                  k \in { m \in OneofMembers(type, field.oneof) :
                            Schema[type][m].index_in_oneof \in
                              GetRandomIndex(Cardinality(
                                  OneofMembers(type, field.oneof))) } }
              \cup
              UNION { ExistingOffers(type, path, k, 0, hint, TRUE) :
                        k \in SetMembers(message, type, field.oneof) }
         ELSE {}
    ELSE IF is_repeated(field)
         THEN { Offer(AddWeight(hint), path, i, idx, "Add") :
                  idx \in GetRandomIndex(FieldSize(message, i) + 1) }
              \cup
              (IF FieldSize(message, i) # 0
               THEN UNION { ExistingOffers(type, path, i, idx, hint, TRUE) :
                              idx \in GetRandomIndex(FieldSize(message, i)) }
               ELSE {})
         ELSE IF HasField(message, i)
              THEN ExistingOffers(type, path, i, 0, hint,
                                  ~is_required(field) \/ ~keep)
              ELSE {Offer(AddWeight(hint), path, i, 0, "Add")}

\* MutationSampler::Sample: every (weight, candidate) pair the traversal may
\* hand to the reservoir sampler, over the draws of the random indices; the
\* traversal visits the message at the path and every sub-message below it
Sample(message, type, path, keep, hint) ==
    UNION { UNION { FieldOffers(n.message, n.type, n.path, i, keep, hint) :
                      i \in 1 .. field_count(n.type) } :
              n \in Nodes(message, type, path) }

\* WeightedReservoirSampler: after the stream, the candidates that may be the
\* selected one; a candidate of weight 0 is ignored
Selectable(offers) == { o \in offers : o.weight > 0 }

\* the result of a sampler that was handed nothing it could select
NoSelection == Offer(0, <<>>, 0, 0, "None")

(***************************************************************************)
(* The data-source sampler.                                                *)
(***************************************************************************)
Source(w, path, i, idx) ==
    [weight |-> w, path |-> path, field |-> i, index |-> idx]

\* the type tests of DataSourceSampler::Sample
Matches(field, match) ==
    /\ field.cpp_type = match.cpp_type
    /\ match.cpp_type \in {"enum", "message"} => field.ref = match.ref

\* one round of the loop over the fields in DataSourceSampler::Sample, after
\* the descent into the sub-messages of the field
FieldSources(message, type, path, i, match) ==
    IF ~Matches(Schema[type][i], match) THEN {}
    ELSE IF is_repeated(Schema[type][i])
         THEN IF FieldSize(message, i) # 0
              THEN { Source(FieldSize(message, i), path, i, idx) :
                       idx \in GetRandomIndex(FieldSize(message, i)) }
              ELSE {}
         ELSE IF HasField(message, i)
              THEN {Source(1, path, i, 0)} ELSE {}

\* a plausible slip: the unset singular fields are offered, the set ones not
DataSourcesUnset(message, type, path, match) ==
    UNION { UNION { IF is_repeated(Schema[n.type][i]) \/ HasField(n.message, i)
                    THEN IF is_repeated(Schema[n.type][i])
                         THEN FieldSources(n.message, n.type, n.path, i, match)
                         ELSE {}
                    ELSE IF Matches(Schema[n.type][i], match)
                         THEN {Source(1, n.path, i, 0)} ELSE {} :
                      i \in 1 .. field_count(n.type) } :
              n \in Nodes(message, type, path) }

\* DataSourceSampler::Sample: every (weight, source) pair handed to the
\* reservoir sampler for the field descriptor match; the traversal visits the
\* message at the path and every sub-message below it
DataSources(message, type, path, match) ==
    UNION { UNION { FieldSources(n.message, n.type, n.path, i, match) :
                      i \in 1 .. field_count(n.type) } :
              n \in Nodes(message, type, path) }

(***************************************************************************)
(* Transformations.                                                        *)
(***************************************************************************)
\* the draws of the message-level specifications: the bit FlipBit flips in
\* a value, and the byte the grow phase of MutateString inserts
MsgBits == {0}
MsgInsertBytes == {96}

\* FieldMutator::Mutate: the values the scalar hook may return for a field
FieldMutate(field, v, hint) ==
    CASE field.cpp_type = "int32" ->
            { FlipBit(4, v, bit) : bit \in BitDraws(4) \cap MsgBits }
      [] field.cpp_type = "bool" -> {MutateBool(v)}
      [] field.cpp_type = "enum" ->
            { MutateEnum(v, EnumCount[field.ref], r) :
                r \in GetRandomIndex(EnumCount[field.ref] - 1) }
      [] field.cpp_type = "string" ->
            MutateString(v, hint, MsgInsertBytes, MsgBits)
      [] field.cpp_type = "message" -> {v}

\* the assertions that fail in FieldMutator::Mutate
FieldMutateAsserts(field, v) ==
    IF field.cpp_type = "enum"
    THEN GetRandomIndexAssert(EnumCount[field.ref] - 1) \cup
         (IF \E r \in GetRandomIndex(EnumCount[field.ref] - 1) :
                MutateEnum(v, EnumCount[field.ref], r) >= EnumCount[field.ref]
          THEN {"value->index < value->count"} ELSE {})
    ELSE {}

\* FieldInstance::Apply(CreateDefaultFieldTransformation) at a site of root
CreateDefaultField(root, rootType, site) ==
    LET type == TypeAt(rootType, site.path)
        created == Create(MessageAt(root, site.path), type, site.field,
                          site.index, GetDefault(Schema[type][site.field]))
    IN  Having(created, ReplaceAt(root, site.path, created))

\* FieldInstance::Apply(CreateFieldTransformation(hint))
CreateField(root, rootType, site, hint) ==
    LET type == TypeAt(rootType, site.path)
        field == Schema[type][site.field]
        owner == MessageAt(root, site.path)
    IN  Having(owner,
               { ReplaceAt(root, site.path,
                           Create(owner, type, site.field, site.index, v)) :
                   v \in FieldMutate(field, GetDefault(field), hint) })

\* FieldInstance::Apply(MutateTransformation(hint))
MutateField(root, rootType, site, hint) ==
    LET type == TypeAt(rootType, site.path)
        owner == MessageAt(root, site.path)
    IN  Having(owner,
               { ReplaceAt(root, site.path,
                           Store(owner, type, site.field, site.index, v)) :
                   v \in FieldMutate(Schema[type][site.field],
                                     Load(owner, site.field, site.index),
                                     hint) })

\* FieldInstance::Apply(DeleteFieldTransformation())
DeleteField(root, rootType, site) ==
    LET deleted == Delete(MessageAt(root, site.path),
                          TypeAt(rootType, site.path), site.field, site.index)
    IN  Having(deleted, ReplaceAt(root, site.path, deleted))

\* FieldInstance::Apply(CopyFieldTransformation(source)), the source a field
\* instance of the message from
CopyField(root, rootType, site, from, source) ==
    LET stored == Store(MessageAt(root, site.path),
                        TypeAt(rootType, site.path), site.field, site.index,
                        Load(MessageAt(from, source.path), source.field,
                             source.index))
    IN  Having(stored, ReplaceAt(root, site.path, stored))

\* FieldInstance::Apply(AppendFieldTransformation(source)) on a message
AppendField(message, type, i, idx, v) == Create(message, type, i, idx, v)

(***************************************************************************)
(* Mutate.                                                                 *)
(***************************************************************************)
Outcome(m, o, empty, asserts) ==
    [message |-> m, selected |-> o, source_empty |-> empty, failed |-> asserts]

\* the field descriptor of the site of an offer
SiteField(rootType, o) == Schema[TypeAt(rootType, o.path)][o.field]

\* the switch of Mutate on the selected mutation, before the repair; with no
\* mutation selected the assertion of the sampler's constructor fails and the
\* switch changes nothing
ApplyMutation(root, rootType, o, hint) ==
    CASE o.mutation = "None" ->
            {Outcome(root, o, FALSE, {"mutation() != Mutation::None"})}
      [] o.mutation = "Add" ->
            { Outcome(m, o, FALSE,
                      FieldMutateAsserts(SiteField(rootType, o),
                                         GetDefault(SiteField(rootType, o)))) :
                m \in CreateField(root, rootType, o, hint \div 2) }
            \cup
            {Outcome(CreateDefaultField(root, rootType, o), o, FALSE, {})}
      [] o.mutation = "Mutate" ->
            { Outcome(m, o, FALSE,
                      FieldMutateAsserts(SiteField(rootType, o),
                                         Load(MessageAt(root, o.path),
                                              o.field, o.index))) :
                m \in MutateField(root, rootType, o, hint \div 2) }
      [] o.mutation = "Delete" ->
            {Outcome(DeleteField(root, rootType, o), o, FALSE, {})}
      [] o.mutation = "Copy" ->
            LET match == SiteField(rootType, o)
                sources == Having(match,
                                  Selectable(DataSources(root, rootType, <<>>,
                                                         match)))
            IN  IF sources = {}
                THEN {Outcome(DeleteField(root, rootType, o), o, TRUE, {})}
                ELSE { Outcome(CopyField(root, rootType, o, root, s), o,
                               FALSE, {}) : s \in sources }

\* the MutationSampler constructor: the mutations it may leave selected
Selected(root, rootType, keep, hint) ==
    LET tried == Selectable(Sample(root, rootType, <<>>, keep, hint)) IN
    IF tried = {} THEN {NoSelection} ELSE tried

(***************************************************************************)
(* CrossOver.                                                              *)
(***************************************************************************)
Min(a, b) == IF a < b THEN a ELSE b

\* Reflection::SwapElements, the positions counted from 0
SwapElements(s, a, b) == [s EXCEPT ![a + 1] = s[b + 1], ![b + 1] = s[a + 1]]

\* the shuffle loop of CrossOverImpl from position j on
RECURSIVE Shuffle(_, _)
Shuffle(s, j) ==
    IF j >= Len(s) THEN {s}
    ELSE UNION { Shuffle(IF k # 0 THEN SwapElements(s, j, j + k) ELSE s, j + 1) :
                   k \in GetRandomIndex(Len(s) - j) }

Crossed(m, keeps, edits) == [message |-> m, keeps |-> keeps, edits |-> edits]

Edit(i, has1, has2, e) == [field |-> i, has1 |-> has1, has2 |-> has2, edit |-> e]

RECURSIVE CrossOverImpl(_, _, _)
RECURSIVE CrossOverMessages(_, _, _)
RECURSIVE CrossLoop(_, _, _, _, _)
RECURSIVE CrossFields(_, _, _, _)

\* the loop "for (j = 0; j < cross; ++j)" with n rounds left
CrossLoop(s, keep, remove, n, type) ==
    IF n = 0 THEN {s}
    ELSE UNION { UNION { UNION {
            CrossLoop([s EXCEPT ![k + 1] = out],
                      keep, remove, n - 1, type) :
              out \in CrossOverMessages(s[keep + r + 1], s[k + 1], type) } :
            r \in GetRandomIndex(remove) } :
            k \in GetRandomIndex(keep) }

\* a plausible slip: the removal loop starts one element late
CrossRepeatedKeepOneMore(message1, message2, type, i) ==
    LET field == Schema[type][i]
        appended == message2[i] \o message1[i]
        field_size2 == Len(appended)
    IN  UNION { UNION {
            { Crossed([message2 EXCEPT
                         ![i] = SubSeq(c, 1, Min(keep + 1, field_size2))],
                      {[field |-> i, size1 |-> Len(message1[i]),
                        size2 |-> Len(message2[i]), keep |-> keep]}, {}) :
                c \in IF field.cpp_type = "message"
                      THEN UNION { CrossLoop(s, keep, field_size2 - keep,
                                             cross, field.ref) :
                                     cross \in GetRandomIndex(
                                        Min(keep, field_size2 - keep) + 1) }
                      ELSE {s} } :
            keep \in GetRandomIndex(field_size2 + 1) } :
            s \in Shuffle(appended, 0) }

\* the branch of CrossOverImpl for a repeated field
CrossRepeated(message1, message2, type, i) ==
    LET field == Schema[type][i]
        appended == message2[i] \o message1[i]
        field_size2 == Len(appended)
    IN  UNION { UNION {
            { Crossed([message2 EXCEPT ![i] = SubSeq(c, 1, keep)],
                      {[field |-> i, size1 |-> Len(message1[i]),
                        size2 |-> Len(message2[i]), keep |-> keep]}, {}) :
                c \in IF field.cpp_type = "message"
                      THEN UNION { CrossLoop(s, keep, field_size2 - keep,
                                             cross, field.ref) :
                                     cross \in GetRandomIndex(
                                        Min(keep, field_size2 - keep) + 1) }
                      ELSE {s} } :
            keep \in GetRandomIndex(field_size2 + 1) } :
            s \in Shuffle(appended, 0) }

\* a plausible slip: the two presence tests exchanged
CrossSingularMessageSwapped(message1, message2, type, i) ==
    LET has1 == HasField(message1, i)
        has2 == HasField(message2, i)
    IN  IF ~has2
        THEN { Crossed(IF coin THEN Delete(message2, type, i, 0) ELSE message2,
                       {}, {Edit(i, has1, has2,
                                 IF coin THEN "Delete" ELSE "None")}) :
                 coin \in GetRandomBool }
        ELSE IF ~has1
        THEN { Crossed(IF coin
                       THEN Store(message2, type, i, 0,
                                  GetDefault(Schema[type][i]))
                       ELSE message2,
                       {}, {Edit(i, has1, has2,
                                 IF coin THEN "Copy" ELSE "None")}) :
                 coin \in GetRandomBool }
        ELSE { Crossed([message2 EXCEPT ![i][1] = out], {},
                       {Edit(i, has1, has2, "Recurse")}) :
                 out \in CrossOverMessages(message1[i][1], message2[i][1],
                                           Schema[type][i].ref) }

\* the branch of CrossOverImpl for a singular sub-message field
CrossSingularMessage(message1, message2, type, i) ==
    LET has1 == HasField(message1, i)
        has2 == HasField(message2, i)
    IN  IF ~has1
        THEN { Crossed(IF coin THEN Delete(message2, type, i, 0) ELSE message2,
                       {}, {Edit(i, has1, has2,
                                 IF coin THEN "Delete" ELSE "None")}) :
                 coin \in GetRandomBool }
        ELSE IF ~has2
        THEN { Crossed(IF coin
                       THEN Store(message2, type, i, 0, Load(message1, i, 0))
                       ELSE message2,
                       {}, {Edit(i, has1, has2,
                                 IF coin THEN "Copy" ELSE "None")}) :
                 coin \in GetRandomBool }
        ELSE { Crossed([message2 EXCEPT ![i][1] = out], {},
                       {Edit(i, has1, has2, "Recurse")}) :
                 out \in CrossOverMessages(message1[i][1], message2[i][1],
                                           Schema[type][i].ref) }

\* the branch of CrossOverImpl for a singular scalar field
CrossSingularScalar(message1, message2, type, i) ==
    { Crossed(IF coin
              THEN IF HasField(message1, i)
                   THEN Store(message2, type, i, 0, Load(message1, i, 0))
                   ELSE Delete(message2, type, i, 0)
              ELSE message2, {}, {}) :
        coin \in GetRandomBool }

\* one round of the loop over the fields of CrossOverImpl
CrossField(message1, message2, type, i) ==
    IF is_repeated(Schema[type][i])
    THEN CrossRepeated(message1, message2, type, i)
    ELSE IF Schema[type][i].cpp_type = "message"
         THEN CrossSingularMessage(message1, message2, type, i)
         ELSE CrossSingularScalar(message1, message2, type, i)

\* the loop over the fields of CrossOverImpl from field i on, with the edits
\* and the keep draws made on the fields of this message
CrossFields(message1, message2, type, i) ==
    IF i > field_count(type) THEN {Crossed(message2, {}, {})}
    ELSE UNION { { Crossed(rest.message, step.keeps \cup rest.keeps,
                           step.edits \cup rest.edits) :
                     rest \in CrossFields(message1, step.message, type, i + 1) } :
                 step \in CrossField(message1, message2, type, i) }

\* CrossOverImpl(message1, message2)
CrossOverImpl(message1, message2, type) ==
    CrossFields(message1, message2, type, 1)

\* the messages a recursive call of CrossOverImpl may leave in message2
CrossOverMessages(message1, message2, type) ==
    { out.message : out \in CrossOverImpl(message1, message2, type) }

(***************************************************************************)
(* The mutator as a state machine: a caller that owns one message applies  *)
(* Mutate and CrossOver to it.                                             *)
(***************************************************************************)
\* the size hints a caller passes
HintDraws == {0, 2}

NoLast ==
    [op |-> "none", hint |-> 0, selected |-> NoSelection,
     source_empty |-> FALSE, initialized |-> FALSE, source |-> <<>>,
     keeps |-> {}, edits |-> {}]

\* the largest size of a repeated field in the message and below it
Width(message, type) ==
    LET sizes == {0} \cup
                 UNION { { FieldSize(n.message, i) :
                             i \in { k \in 1 .. field_count(n.type) :
                                       is_repeated(Schema[n.type][k]) } } :
                         n \in Nodes(message, type, <<>>) }
    IN  CHOOSE w \in sizes : \A v \in sizes : v <= w

\* a chain of n messages D, each the child of the one before
RECURSIVE Chain(_)
Chain(n) ==
    IF n <= 1 THEN NewMessage("D")
    ELSE [NewMessage("D") EXCEPT ![1] = <<Chain(n - 1)>>]

\* the messages a caller starts from, by root type
InitialMessages(type) ==
    CASE type = "M" ->
            { NewMessage("M"),
              << <<<<0, 0, 0, 0>>>>, <<>>, <<>> >>,
              << <<<<0, 0, 0, 0>>>>, <<<<97>>>>, <<<<0, 0, 0, 0>>, <<1, 0, 0, 0>>>> >> }
      [] type = "O" ->
            { NewMessage("O"), << <<>>, <<1>>, <<2>>, <<0>> >> }
      [] type = "N" ->
            { NewMessage("N"),
              << << <<<<>>>>, <<<<FALSE>>>> >>, <<>> >>,
              << <<>>, << <<<<TRUE>>>> >> >> }
      [] type = "D" ->
            { Chain(1), Chain(kMaxInitializeDepth + 1) }
      [] type = "K" ->
            { NewMessage("K") }

NoRun == [shrunk |-> <<>>, grown |-> <<>>, flipped |-> <<>>]

InitScalarsIdle ==
    /\ pc = "idle"
    /\ index = 0
    /\ item_count = 1
    /\ value = <<>>
    /\ size_increase_hint = 0
    /\ run = NoRun
    /\ result = 0

InitRoots(types) ==
    /\ descriptor \in types
    /\ msg \in InitialMessages(descriptor)
    /\ keep_initialized_ \in BOOLEAN
    /\ ops = 0
    /\ last = NoLast
    /\ failed = {}
    /\ InitScalarsIdle

Init == InitRoots({"M", "O"})
InitCross == InitRoots({"N"})
InitDeep == InitRoots({"D", "K"})

\* the calls explored: MaxOps of them, MaxCrossOps on a message with repeated
\* sub-messages (the root N), and MaxDeepOps on a message nested deeper than
\* MaxCrossDepth
MayCall ==
    ops < (IF Depth(msg, descriptor) > MaxCrossDepth THEN MaxDeepOps
           ELSE IF descriptor = "N" THEN MaxCrossOps
           ELSE MaxOps)

\* ProtobufMutator::Mutate(message, size_increase_hint)
Mutate ==
    /\ MayCall
    /\ \E hint \in HintDraws :
       \E o \in Selected(msg, descriptor, keep_initialized_, hint) :
       \E out \in ApplyMutation(msg, descriptor, o, hint) :
          /\ msg' = Repaired(out.message, descriptor, keep_initialized_)
          /\ failed' = out.failed \cup
                       RepairAsserts(out.message, descriptor, keep_initialized_)
          /\ last' = [NoLast EXCEPT
                        !.op = "Mutate", !.hint = hint,
                        !.selected = out.selected,
                        !.source_empty = out.source_empty,
                        !.initialized = IsInitialized(msg, descriptor)]
    /\ ops' = ops + 1
    /\ UNCHANGED <<descriptor, keep_initialized_>>
    /\ UNCHANGED scalarVars

\* ProtobufMutator::CrossOver(message1, message2), message2 the caller's
\* message and message1 one of the initial messages or a copy of message2
CrossOver ==
    /\ MayCall
    /\ \E message1 \in InitialMessages(descriptor) \cup {msg} :
          /\ Width(message1, descriptor) + Width(msg, descriptor) <= MaxAppended
          /\ Depth(message1, descriptor) + Depth(msg, descriptor) <= MaxCrossDepth
          /\ \E out \in CrossOverImpl(message1, msg, descriptor) :
                /\ msg' = Repaired(out.message, descriptor, keep_initialized_)
                /\ failed' = RepairAsserts(out.message, descriptor,
                                           keep_initialized_)
                /\ last' = [NoLast EXCEPT
                              !.op = "CrossOver",
                              !.initialized =
                                  /\ IsInitialized(msg, descriptor)
                                  /\ IsInitialized(message1, descriptor),
                              !.source = message1,
                              !.keeps = out.keeps,
                              !.edits = out.edits]
    /\ ops' = ops + 1
    /\ UNCHANGED <<descriptor, keep_initialized_>>
    /\ UNCHANGED scalarVars

Next == Mutate \/ CrossOver

(***************************************************************************)
(* Specification of the enum hook.                                         *)
(***************************************************************************)
InitEnum ==
    /\ pc = "call"
    /\ item_count \in 1 .. MaxEnumCount
    /\ index \in 0 .. (item_count - 1)
    /\ value = <<>>
    /\ size_increase_hint = 0
    /\ run = NoRun
    /\ result = 0
    /\ failed = {}
    /\ descriptor = "M"
    /\ msg = NewMessage("M")
    /\ keep_initialized_ = FALSE
    /\ ops = 0
    /\ last = NoLast

CallMutateEnum ==
    /\ pc = "call"
    /\ \E r \in GetRandomIndex(item_count - 1) :
          result' = MutateEnum(index, item_count, r)
    /\ failed' = GetRandomIndexAssert(item_count - 1)
    /\ pc' = "done"
    /\ UNCHANGED <<index, item_count, value, size_increase_hint, run>>
    /\ UNCHANGED messageVars

NextEnum == CallMutateEnum

(***************************************************************************)
(* Specification of the string hook.                                       *)
(***************************************************************************)
Strings(bytes, n) == UNION { [1 .. k -> bytes] : k \in 0 .. n }

InitString ==
    /\ pc = "call"
    /\ value \in Strings(InputBytes, MaxStrLen)
    /\ size_increase_hint \in 0 .. MaxHint
    /\ index = 0
    /\ item_count = 1
    /\ run = NoRun
    /\ result = <<>>
    /\ failed = {}
    /\ descriptor = "M"
    /\ msg = NewMessage("M")
    /\ keep_initialized_ = FALSE
    /\ ops = 0
    /\ last = NoLast

CallMutateString ==
    /\ pc = "call"
    /\ \E r \in MutateStringRuns(value, size_increase_hint, InsertBytes,
                                AllBits) :
          /\ run' = r
          /\ result' = r.flipped
    /\ pc' = "done"
    /\ UNCHANGED <<index, item_count, value, size_increase_hint, failed>>
    /\ UNCHANGED messageVars

NextString == CallMutateString

vars == <<pc, index, item_count, value, size_increase_hint, run, result, failed,
          descriptor, msg, keep_initialized_, ops, last>>

Spec == Init /\ [][Next]_vars
SpecCross == InitCross /\ [][Next]_vars
SpecDeep == InitDeep /\ [][Next]_vars

SpecEnum == InitEnum /\ [][NextEnum]_vars
SpecString == InitString /\ [][NextString]_vars

(***************************************************************************)
(* C3  Enum change law: for count >= 2 and 0 <= i < count, whatever        *)
(* uniform_index(count - 1) draws, mutate_enum(i, count) is a valid index  *)
(* in [0, count) different from i.                                         *)
(***************************************************************************)
EnumChangeLaw ==
    (pc = "done" /\ item_count >= 2) =>
        /\ result \in 0 .. (item_count - 1)
        /\ result # index
        /\ failed = {}

EnumChangeWitness ==
    pc = "done" /\ item_count >= 3 /\ index = item_count - 1 /\ result = 1

(***************************************************************************)
(* C4  String bit-flip with size_hint 0: for a non-empty v, whatever the   *)
(* coins and index draws, mutate_string(v, 0) differs from v.              *)
(***************************************************************************)
StringHintZeroChanges ==
    (pc = "done" /\ size_increase_hint = 0 /\ Len(value) >= 1) =>
        result # value

StringHintZeroWitness ==
    /\ pc = "done"
    /\ size_increase_hint = 0
    /\ Len(value) >= 1
    /\ Len(result) = Len(value)

(***************************************************************************)
(* C9  As claimed: for every size_hint and every non-empty v,              *)
(* mutate_string(v, size_hint) differs from v.                             *)
(***************************************************************************)
StringAlwaysChanges ==
    (pc = "done" /\ Len(value) >= 1) => result # value

(***************************************************************************)
(* C9  As amended: for every size_hint and every non-empty v, the final    *)
(* bit flip makes the result differ from the buffer the shrink and grow    *)
(* phases left whenever that buffer is non-empty, and the result differs   *)
(* from v whenever the grow phase inserted no byte.                        *)
(***************************************************************************)
StringFlipChangesBuffer ==
    (pc = "done" /\ Len(value) >= 1) =>
        /\ run.grown # <<>> => result # run.grown
        /\ run.grown = run.shrunk => result # value

StringFlipWitness ==
    /\ pc = "done"
    /\ Len(value) >= 1
    /\ size_increase_hint >= 1
    /\ Len(run.grown) > Len(run.shrunk)
    /\ result # value

(***************************************************************************)
(* C1  Initialisation preservation: for a schema without a cycle of        *)
(* required fields (the descriptor D), with keep_initialized on and an     *)
(* initialised message on entry (of any depth) and, for cross_over, an     *)
(* initialised source, the message is initialised after mutate and after   *)
(* cross_over return.                                                      *)
(***************************************************************************)
InitialisationPreserved ==
    (/\ last.op \in {"Mutate", "CrossOver"}
     /\ descriptor = "D"
     /\ keep_initialized_
     /\ last.initialized) =>
        IsInitialized(msg, descriptor)

(***************************************************************************)
(* C2  The sampler always selects: for a message whose schema declares a   *)
(* field, every keep_initialized setting and every size_hint (0 too), the  *)
(* assertion mutation() != Mutation::None of the sampler's constructor     *)
(* does not fail in mutate.                                                *)
(***************************************************************************)
SamplerAlwaysSelects ==
    last.op = "Mutate" =>
        /\ "mutation() != Mutation::None" \notin failed
        /\ last.selected.mutation # "None"

(***************************************************************************)
(* C5  As claimed: after cross_over(m, copy of m) every repeated field of  *)
(* the target, the repeated fields inside the elements of a repeated       *)
(* sub-message field included, has a size in [0, 2 * |m.f|]: for a nested  *)
(* field, at most twice its largest size in any element of m.              *)
(***************************************************************************)
RepeatedFields(type) ==
    { i \in 1 .. field_count(type) : is_repeated(Schema[type][i]) }

\* the sizes of the repeated field i of the messages of a type in a tree
SizesIn(message, rootType, type, i) ==
    { FieldSize(n.message, i) :
        n \in { m \in Nodes(message, rootType, <<>>) : m.type = type } }

Largest(sizes) == CHOOSE w \in sizes \cup {0} : \A v \in sizes : v <= w

CrossSelfDoublesAtMost ==
    [][(/\ last'.op = "CrossOver"
        /\ ops' = ops + 1
        /\ last'.source = msg) =>
           \A n \in Nodes(msg', descriptor, <<>>) :
              \A i \in RepeatedFields(n.type) :
                 FieldSize(n.message, i) <=
                    2 * Largest(SizesIn(msg, descriptor, n.type, i))]_vars

(***************************************************************************)
(* C5  As amended: after cross_over(m1, m2) every repeated field f of the  *)
(* target itself has the size of the drawn keep value, with                *)
(* 0 <= size <= |m1.f| + |m2.f|; a repeated field g inside an element of   *)
(* a repeated sub-message field f has at most                              *)
(* (1 + (|m1.f| + |m2.f|) div 2) times the largest size g has in the       *)
(* elements of m1.f and m2.f, an element being blended once per round of   *)
(* the cross loop.                                                         *)
(***************************************************************************)
CrossKeepsDrawnSize ==
    [][(last'.op = "CrossOver" /\ ops' = ops + 1) =>
          \A i \in RepeatedFields(descriptor) :
             /\ \E k \in last'.keeps :
                   /\ k.field = i
                   /\ k.size1 = FieldSize(last'.source, i)
                   /\ k.size2 = FieldSize(msg, i)
                   /\ k.keep = FieldSize(msg', i)
             /\ FieldSize(msg', i) <=
                   FieldSize(last'.source, i) + FieldSize(msg, i)
             /\ Schema[descriptor][i].cpp_type = "message" =>
                   \A j \in 1 .. FieldSize(msg', i) :
                   \A g \in RepeatedFields(Schema[descriptor][i].ref) :
                      FieldSize(msg'[i][j], g) <=
                         (1 + (FieldSize(last'.source, i) + FieldSize(msg, i))
                                 \div 2)
                         * Largest({ FieldSize(e, g) :
                                       e \in { last'.source[i][a] :
                                                 a \in 1 .. FieldSize(last'.source, i) }
                                             \cup
                                             { msg[i][b] :
                                                 b \in 1 .. FieldSize(msg, i) } })]_vars

CrossKeepsWitness ==
    /\ last.op = "CrossOver"
    /\ descriptor = "N"
    /\ \E k \in last.keeps :
          k.field = 1 /\ k.size1 = 2 /\ k.size2 = 2 /\ k.keep = 2
    /\ \E j \in 1 .. FieldSize(msg, 1) : FieldSize(msg[1][j], 1) = 3

(***************************************************************************)
(* C6  As claimed: in cross_over(msg1, msg2), for a singular sub-message   *)
(* field f: only msg1 has f - the only edit of msg2.f is a Delete; only    *)
(* msg2 has f - the only edit is a Copy from msg1.f; both have f - the     *)
(* driver recurses.                                                        *)
(***************************************************************************)
CrossSingularAsClaimed ==
    last.op = "CrossOver" =>
        \A e \in last.edits :
            /\ (e.has1 /\ ~e.has2) => e.edit \in {"Delete", "None"}
            /\ (~e.has1 /\ e.has2) => e.edit \in {"Copy", "None"}
            /\ (e.has1 /\ e.has2) => e.edit = "Recurse"

(***************************************************************************)
(* C6  As amended: in cross_over(msg1, msg2), for a singular sub-message   *)
(* field f: msg1 lacks f - the only edit of msg2.f is a Delete, after      *)
(* which msg2 lacks f; msg1 has f and msg2 lacks it - the only edit is a   *)
(* Copy, after which msg2.f equals msg1.f; both have f - no presence       *)
(* change is made and the driver recurses on (msg1.f, msg2.f).             *)
(***************************************************************************)
CrossSingularRule ==
    last.op = "CrossOver" =>
        \A e \in last.edits :
            /\ e.has1 = HasField(last.source, e.field)
            /\ ~e.has1 => e.edit \in {"Delete", "None"}
            /\ (e.has1 /\ ~e.has2) => e.edit \in {"Copy", "None"}
            /\ (e.has1 /\ e.has2) => e.edit = "Recurse"
            /\ e.edit = "Delete" => ~HasField(msg, e.field)
            /\ e.edit = "Copy" => msg[e.field] = last.source[e.field]
            /\ e.edit = "Recurse" => HasField(msg, e.field)

CrossSingularWitness ==
    /\ last.op = "CrossOver"
    /\ \E e \in last.edits : e.has1 /\ ~e.has2 /\ e.edit = "Copy"
    /\ HasField(msg, 2)

(***************************************************************************)
(* C7  Silent tolerance: with keep_initialized on, when the repair pass    *)
(* cannot make the message initialised or reaches its depth bound, mutate  *)
(* and cross_over return without any assertion failure: neither the        *)
(* assertion on max_depth of the repair pass nor the assertion on          *)
(* IsInitialized after it fails.                                           *)
(***************************************************************************)
RepairNeverAsserts ==
    (last.op \in {"Mutate", "CrossOver"} /\ keep_initialized_) =>
        failed \cap {"max_depth", "message->IsInitialized()"} = {}

(***************************************************************************)
(* C8  No growth at size_hint 0: a call mutate(m, 0) never selects an Add  *)
(* and, for the schema M, never increases |c|.                             *)
(***************************************************************************)
NoGrowthAtHintZero ==
    [][(/\ last'.op = "Mutate"
        /\ ops' = ops + 1
        /\ last'.hint = 0) =>
           /\ last'.selected.mutation # "Add"
           /\ descriptor = "M" => FieldSize(msg', 3) <= FieldSize(msg, 3)]_vars

NoGrowthWitness ==
    /\ last.op = "Mutate"
    /\ last.hint = 0
    /\ descriptor = "M"
    /\ last.selected.mutation = "Delete"
    /\ last.selected.field = 3
    /\ FieldSize(msg, 3) = 1

(***************************************************************************)
(* C10  Inside mutate, whenever the sampler selects a Copy at a site, the  *)
(* data-source sampler is not empty, so the Delete fallback is not taken,  *)
(* and the field of the site is still set when mutate returns.             *)
(***************************************************************************)
CopyHasSource ==
    (last.op = "Mutate" /\ last.selected.mutation = "Copy") =>
        /\ ~last.source_empty
        /\ HasField(MessageAt(msg, last.selected.path), last.selected.field)
        /\ is_repeated(Schema[TypeAt(descriptor, last.selected.path)]
                             [last.selected.field]) =>
              FieldSize(MessageAt(msg, last.selected.path),
                        last.selected.field) > last.selected.index

CopyRequiredWitness ==
    /\ last.op = "Mutate"
    /\ last.selected.mutation = "Copy"
    /\ descriptor = "M"
    /\ keep_initialized_
    /\ last.selected.field = 1
    /\ HasField(msg, 1)


\* C11: every call of GetRandomIndex reachable from Mutate, CrossOver and the
\* scalar mutators is made with count > 0, so that the assertion count > 0
\* of GetRandomIndex never fails, whatever the schema (an enum type with a
\* single value included), the message and the draws.
RandomIndexCountPositive ==
    "count > 0" \notin failed

====
